---------------------------- MODULE Spec2Model ----------------------------
(***************************************************************************)
(* A model of MovieEnc_v1.1.0.py: the settings store (load_config,         *)
(* save_config), the UI handlers that change the settings, and the encode  *)
(* request handler run_ffmpeg with the two external tools it drives        *)
(* (ffprobe, ffmpeg).                                                      *)
(*                                                                         *)
(* Text is a sequence of strings, one per character (or per fixed chunk of *)
(* an f-string); concatenation is \o.  A probed duration is a whole number *)
(* of seconds and the bitrate arithmetic is exact.                         *)
(***************************************************************************)
EXTENDS Integers, Sequences, FiniteSets, TLC

VARIABLES
    config,            \* the module-level dict `config`
    file,              \* config.json on disk: [exists, content]
    last_save,         \* how the latest save_config ended: "none" | "ok" | "failed"
    input_entry,       \* text of the input file Entry
    output_dir_entry,  \* text of the output folder Entry
    mode_var,          \* tk.StringVar of the radio buttons
    use_nvenc_var,     \* tk.BooleanVar of the NVENC checkbox
    pc,                \* where run_ffmpeg is: "idle" | "probe_duration" |
                       \*   "probe_resolution" | "encode" | "done"
    duration,          \* run_ffmpeg's local `duration` (-1: not obtained)
    orig_res,          \* run_ffmpeg's local `orig_res` (<<"unset">> before the probe)
    command,           \* run_ffmpeg's local `command` (<<>> before it is built)
    spawned,           \* the external tools invoked by the current request, in order
    dialogs,           \* the messagebox calls of the current request, in order
    uncaught           \* the exception that left run_ffmpeg uncaught, or "none"

vars == <<config, file, last_save, input_entry, output_dir_entry, mode_var,
          use_nvenc_var, pc, duration, orig_res, command, spawned, dialogs,
          uncaught>>

settings_vars == <<config, file, last_save>>
widget_vars   == <<input_entry, output_dir_entry, mode_var, use_nvenc_var>>
request_vars  == <<pc, duration, orig_res, command, spawned, dialogs, uncaught>>

(***************************************************************************)
(* Bounds and program constants                                            *)
(***************************************************************************)
\* Probed durations range over 0, 60, 600 and 570 .. MaxDuration seconds.
MaxDuration == 575

TARGET_SIZE_BITS == 73600000
AUDIO_BITRATE == 128000
QUALITY == 23

(***************************************************************************)
(* The environment: what the file system holds and what the user enters    *)
(***************************************************************************)
\* A directory with a backslash, one with a double quote, and one that is gone.
DirBackslash == <<"c", "\\", "v">>
DirQuote     == <<"v", "\"">>
DirGone      == <<"g">>
DesktopDir   == <<"~", "/", "Desktop">>

FileOk   == <<"d", "/", "a", ".", "m">>
FileGone == <<"x", ".", "m">>

ExistingPaths == {DirBackslash, DirQuote, DesktopDir, FileOk}

\* What the directory dialog can return (it only offers folders that exist).
DialogDirs == {DirBackslash, DirQuote}
\* What can be typed into the output folder Entry.
TypedDirs == {<<>>, DirGone}
\* What can end up in the input Entry (the second one has blanks to strip).
InputTexts == {<<" ">> \o FileOk \o <<" ">>, FileGone, <<" ">>}

UIModes == {"360p", "480p", "720p", "9.5MB"}

Durations == {0, 60, 600} \cup (570 .. MaxDuration)

(***************************************************************************)
(* Text helpers                                                            *)
(***************************************************************************)
RECURSIVE lstrip(_)
lstrip(s) == IF s # <<>> /\ Head(s) = " " THEN lstrip(Tail(s)) ELSE s

RECURSIVE rstrip(_)
rstrip(s) ==
    IF s # <<>> /\ s[Len(s)] = " " THEN rstrip(SubSeq(s, 1, Len(s) - 1)) ELSE s

strip(s) == rstrip(lstrip(s))

\* The index of the last occurrence of c in s, 0 when there is none.
rfind(s, c) ==
    LET hits == {i \in 1 .. Len(s) : s[i] = c}
    IN  IF hits = {} THEN 0 ELSE CHOOSE i \in hits : \A j \in hits : j <= i

basename(p) == SubSeq(p, rfind(p, "/") + 1, Len(p))

\* os.path.splitext(p)[0]: cut at the last dot, unless the name starts with it.
splitext_root(p) ==
    LET dot == rfind(p, ".")
    IN  IF dot > rfind(p, "/") + 1 THEN SubSeq(p, 1, dot - 1) ELSE p

\* An existence check that never fails.
exists_always(p) == TRUE

exists(p) == p \in ExistingPaths

(***************************************************************************)
(* Settings store: json.dump / json.load of the config dict                *)
(***************************************************************************)
EmptyDict == [k \in {} |-> TRUE]

dict_get(d, k, default) == IF k \in DOMAIN d THEN d[k] ELSE default

\* A dump that writes the characters of a string as they are.
json_escape_raw(s) == s

\* The body of a JSON string literal: backslash and double quote are escaped.
RECURSIVE json_escape(_)
json_escape(s) ==
    IF s = <<>> THEN <<>>
    ELSE (IF Head(s) \in {"\\", "\""} THEN <<"\\", Head(s)>> ELSE <<Head(s)>>)
         \o json_escape(Tail(s))

json_string(s) == <<"\"">> \o json_escape(s) \o <<"\"">>

json_bool(b) == IF b THEN <<"true">> ELSE <<"false">>

\* json.dump(data): the object's members in key order, as a token sequence
\* (indentation is insignificant and left out).
json_dump(data) ==
    LET dir == IF "last_output_dir" \in DOMAIN data
               THEN <<<<"last_output_dir", ":">> \o json_string(data["last_output_dir"])>>
               ELSE <<>>
        nv  == IF "use_nvenc" \in DOMAIN data
               THEN <<<<"use_nvenc", ":">> \o json_bool(data["use_nvenc"])>>
               ELSE <<>>
        members == dir \o nv
    IN  <<"{">>
        \o (IF members = <<>> THEN <<>>
            ELSE IF Len(members) = 1 THEN members[1]
            ELSE members[1] \o <<",">> \o members[2])
        \o <<"}">>

ParseError == [ok |-> FALSE]

\* Reads the characters of a string literal from t[i] up to its closing quote.
RECURSIVE read_string(_, _, _)
read_string(t, i, acc) ==
    IF i > Len(t) THEN ParseError
    ELSE IF t[i] = "\"" THEN [ok |-> TRUE, val |-> acc, next |-> i + 1]
    ELSE IF t[i] = "\\"
         THEN IF i + 1 <= Len(t) /\ t[i + 1] \in {"\\", "\""}
              THEN read_string(t, i + 2, Append(acc, t[i + 1]))
              ELSE ParseError
    ELSE read_string(t, i + 1, Append(acc, t[i]))

read_value(t, i) ==
    IF i > Len(t) THEN ParseError
    ELSE IF t[i] = "true" THEN [ok |-> TRUE, val |-> TRUE, next |-> i + 1]
    ELSE IF t[i] = "false" THEN [ok |-> TRUE, val |-> FALSE, next |-> i + 1]
    ELSE IF t[i] = "\"" THEN read_string(t, i + 1, <<>>)
    ELSE ParseError

\* Reads `key : value` members from t[i] on, up to the closing brace, which
\* must end the document.
RECURSIVE read_members(_, _, _)
read_members(t, i, obj) ==
    IF i + 1 > Len(t) \/ t[i] \notin {"last_output_dir", "use_nvenc"} \/ t[i + 1] # ":"
    THEN ParseError
    ELSE LET v == read_value(t, i + 2)
         IN  IF ~v.ok \/ v.next > Len(t) THEN ParseError
             ELSE LET obj2 == (t[i] :> v.val) @@ obj
                  IN  IF t[v.next] = "}"
                      THEN IF v.next = Len(t) THEN [ok |-> TRUE, val |-> obj2]
                           ELSE ParseError
                      ELSE IF t[v.next] = ","
                      THEN read_members(t, v.next + 1, obj2)
                      ELSE ParseError

json_load(t) ==
    IF Len(t) < 2 \/ t[1] # "{" THEN ParseError
    ELSE IF t = <<"{", "}">> THEN [ok |-> TRUE, val |-> EmptyDict]
    ELSE read_members(t, 2, EmptyDict)

NoFile == [exists |-> FALSE, content |-> <<>>]

load_config(f) ==
    IF f.exists
    THEN LET r == json_load(f.content) IN IF r.ok THEN r.val ELSE EmptyDict
    ELSE EmptyDict

\* The file after save_config(data): written in full, or left as it was
\* when open() fails, or left truncated when the write fails after open().
save_config(f, data, outcome) ==
    CASE outcome = "ok"           -> [exists |-> TRUE, content |-> json_dump(data)]
      [] outcome = "open_failed"  -> f
      [] outcome = "write_failed" -> [exists |-> TRUE, content |-> <<>>]

SaveOutcomes == {"ok", "open_failed", "write_failed"}

save_result(outcome) == IF outcome = "ok" THEN "ok" ELSE "failed"

(***************************************************************************)
(* ffprobe / ffmpeg: what the tools can answer                             *)
(***************************************************************************)
\* stdout of the resolution probe, stripped: WIDTHxHEIGHT for a video
\* stream, nothing for a file without one, or a line with a trailing x.
ResolutionTexts ==
    { <<"1920", "x", "1080">>, <<"1080", "x", "1920">>, <<"720", "x", "720">>,
      <<>>, <<"1920", "x", "1080", "x">> }

Unknown == <<"unknown">>
Unset   == <<"unset">>

\* int(): the digit strings the probe can print, anything else is a ValueError.
IntTable == [t \in {"1920", "1080", "720"} |->
                CASE t = "1920" -> 1920 [] t = "1080" -> 1080 [] t = "720" -> 720]

is_int(t) == t \in DOMAIN IntTable

\* s.split(sep), each field joined to one string ("" for an empty field).
RECURSIVE split(_, _, _)
split(s, sep, field) ==
    IF s = <<>> THEN <<field>>
    ELSE IF Head(s) = sep THEN <<field>> \o split(Tail(s), sep, "")
    ELSE split(Tail(s), sep, field \o Head(s))

\* orig_width, orig_height = map(int, orig_res.split("x")) succeeds.
resolution_parses(res) ==
    LET fields == split(res, "x", "")
    IN  Len(fields) = 2 /\ is_int(fields[1]) /\ is_int(fields[2])

vertical_of(res) ==
    IF res # Unknown
    THEN LET fields == split(res, "x", "")
         IN  IntTable[fields[1]] < IntTable[fields[2]]
    ELSE FALSE

EncoderOutcomes == {"exit0", "nonzero", "oserror"}

(***************************************************************************)
(* run_ffmpeg: the encode parameters                                       *)
(***************************************************************************)
RECURSIVE text(_)
text(p) == IF p = <<>> THEN "" ELSE Head(p) \o text(Tail(p))

vertical_presets == [m \in {"360p", "480p", "720p"} |->
    CASE m = "360p" -> "360:-1" [] m = "480p" -> "480:-1" [] m = "720p" -> "720:-1"]

landscape_presets == [m \in {"360p", "480p", "720p"} |->
    CASE m = "360p" -> "640:360" [] m = "480p" -> "854:480" [] m = "720p" -> "1280:720"]

\* "" stands for None: `if scaling_filter:` is false for both.
scaling_filter(mode, vertical) ==
    IF mode \in {"360p", "480p", "720p"}
    THEN "scale=" \o (IF vertical THEN vertical_presets[mode] ELSE landscape_presets[mode])
    ELSE IF mode = "9.5MB"
    THEN (IF vertical THEN "scale=480:-1" ELSE "scale=854:480")
    ELSE ""

\* The label is the mode token whatever it is.
resolution_str_token(mode) == mode

resolution_str(mode) ==
    IF mode \in {"360p", "480p", "720p", "9.5MB"} THEN mode ELSE "default"

\* Every mode is encoded to a bitrate.
use_bitrate_always(mode) == TRUE

use_bitrate(mode) == mode = "9.5MB"

\* The target size counted in units of 1024 * 1024 bytes (9.2 MiB).
video_total_bits_binary(d) == 77175193 - AUDIO_BITRATE * d

video_total_bits(d) == TARGET_SIZE_BITS - AUDIO_BITRATE * d

\* Kilobits of 1024 bits.
video_bitrate_kbps_binary(d) == video_total_bits(d) \div (d * 1024)

\* int(video_total_bits / duration / 1000) for video_total_bits > 0, d > 0:
\* the exact quotient, truncated.
video_bitrate_kbps(d) == video_total_bits(d) \div (d * 1000)

get_output_dir(entry) ==
    IF strip(entry) = <<>> THEN DesktopDir ELSE strip(entry)

output_file(input_file, out_dir, mode) ==
    text(out_dir) \o "/" \o text(splitext_root(basename(input_file)))
        \o "_" \o resolution_str(mode) \o ".mp4"

\* The bitrate branch always takes the software codec.
bitrate_args_software(kbps, use_nvenc) ==
    <<"-b:v", ToString(kbps) \o "k", "-c:v", "libx264", "-preset", "slow">>

bitrate_args(kbps, use_nvenc) ==
    IF use_nvenc
    THEN <<"-b:v", ToString(kbps) \o "k", "-c:v", "h264_nvenc", "-preset", "slow">>
    ELSE <<"-b:v", ToString(kbps) \o "k", "-c:v", "libx264", "-preset", "slow">>

quality_args(use_nvenc) ==
    IF use_nvenc
    THEN <<"-c:v", "h264_nvenc", "-preset", "slow", "-cq", ToString(QUALITY)>>
    ELSE <<"-c:v", "libx264", "-preset", "slow", "-crf", ToString(QUALITY)>>

audio_args == <<"-c:a", "aac", "-b:a", "128k", "-ar", "44100">>

build_command(input_file, out_dir, mode, vertical, use_nvenc, d) ==
    <<"ffmpeg", "-i", text(input_file)>>
    \o (IF scaling_filter(mode, vertical) # ""
        THEN <<"-vf", scaling_filter(mode, vertical)>> ELSE <<>>)
    \o (IF use_bitrate(mode)
        THEN bitrate_args(video_bitrate_kbps(d), use_nvenc)
        ELSE quality_args(use_nvenc))
    \o audio_args
    \o <<output_file(input_file, out_dir, mode)>>

(***************************************************************************)
(* Notifications                                                           *)
(***************************************************************************)
showerror(msg) == [kind |-> "error", msg |-> msg]
showinfo(msg)  == [kind |-> "info", msg |-> msg]

SourceNotSpecified     == "SourceNotSpecified"      \* line 121
SourceNotFound         == "SourceNotFound"          \* line 124
DurationProbeFailed    == "ProbeFailed:duration"    \* line 57
ResolutionProbeFailed  == "ProbeFailed:resolution"  \* line 80
OutputDirectoryMissing == "OutputDirectoryMissing"  \* line 173
InsufficientBudget     == "InsufficientBudget"      \* line 191
InvalidBitrate         == "InvalidBitrate"          \* line 196
EncoderFailed          == "EncoderFailed"           \* line 223
Completed              == "Completed"               \* line 221

(***************************************************************************)
(* Startup (module level, lines 228-268)                                   *)
(***************************************************************************)
\* config.json as a launch can find it: absent, empty, or left by an earlier run.
InitialFiles ==
    { NoFile, [exists |-> TRUE, content |-> <<>>],
      [exists |-> TRUE, content |-> json_dump([use_nvenc |-> TRUE])],
      [exists |-> TRUE,
       content |-> json_dump([last_output_dir |-> DirGone, use_nvenc |-> FALSE])] }

NoRequest ==
    /\ pc = "idle"
    /\ duration = -1
    /\ orig_res = Unset
    /\ command = <<>>
    /\ spawned = <<>>
    /\ dialogs = <<>>
    /\ uncaught = "none"

Startup(f) ==
    /\ file = f
    /\ config = load_config(f)
    /\ last_save = "none"
    /\ input_entry = <<>>
    /\ output_dir_entry = dict_get(load_config(f), "last_output_dir", <<>>)
    /\ mode_var = "360p"
    /\ use_nvenc_var = dict_get(load_config(f), "use_nvenc", FALSE)
    /\ NoRequest

Init == \E f \in InitialFiles : Startup(f)

\* The window is closed and the program is started again.
Restart ==
    /\ pc = "idle"
    /\ file' = file
    /\ config' = load_config(file)
    /\ last_save' = "none"
    /\ input_entry' = <<>>
    /\ output_dir_entry' = dict_get(load_config(file), "last_output_dir", <<>>)
    /\ mode_var' = "360p"
    /\ use_nvenc_var' = dict_get(load_config(file), "use_nvenc", FALSE)
    /\ UNCHANGED request_vars

(***************************************************************************)
(* UI handlers                                                             *)
(***************************************************************************)
\* browse_file, drop, or typing: the input Entry gets a new text.
browse_file ==
    /\ pc = "idle"
    /\ \E filename \in InputTexts : input_entry' = filename
    /\ UNCHANGED <<settings_vars, output_dir_entry, mode_var, use_nvenc_var, request_vars>>

\* The output folder Entry is edited by hand: nothing is saved.
type_output_dir ==
    /\ pc = "idle"
    /\ \E directory \in TypedDirs : output_dir_entry' = directory
    /\ UNCHANGED <<settings_vars, input_entry, mode_var, use_nvenc_var, request_vars>>

select_mode ==
    /\ pc = "idle"
    /\ \E mode \in UIModes : mode_var' = mode
    /\ UNCHANGED <<settings_vars, input_entry, output_dir_entry, use_nvenc_var, request_vars>>

browse_output_dir ==
    /\ pc = "idle"
    /\ \E directory \in DialogDirs, outcome \in SaveOutcomes :
          /\ output_dir_entry' = directory
          /\ config' = ("last_output_dir" :> directory) @@ config
          /\ file' = save_config(file, config', outcome)
          /\ last_save' = save_result(outcome)
    /\ UNCHANGED <<input_entry, mode_var, use_nvenc_var, request_vars>>

\* The checkbox is clicked: the variable flips, then toggle_nvenc runs.
toggle_nvenc ==
    /\ pc = "idle"
    /\ use_nvenc_var' = ~use_nvenc_var
    /\ \E outcome \in SaveOutcomes :
          /\ config' = ("use_nvenc" :> use_nvenc_var') @@ config
          /\ file' = save_config(file, config', outcome)
          /\ last_save' = save_result(outcome)
    /\ UNCHANGED <<input_entry, output_dir_entry, mode_var, request_vars>>

(***************************************************************************)
(* run_ffmpeg (lines 117-223), cut at its three blocking subprocess calls  *)
(***************************************************************************)
\* The request ends: a dialog, an uncaught exception, or both left as given.
Finish(ds, exc) ==
    /\ pc' = "done"
    /\ dialogs' = ds
    /\ uncaught' = exc

\* Lines 119-128: the input is validated, then the duration probe is started.
run_ffmpeg_start ==
    /\ pc = "idle"
    /\ LET input_file == strip(input_entry)
       IN  IF input_file = <<>>
           THEN /\ Finish(<<showerror(SourceNotSpecified)>>, "none")
                /\ UNCHANGED spawned
           ELSE IF ~exists(input_file)
           THEN /\ Finish(<<showerror(SourceNotFound)>>, "none")
                /\ UNCHANGED spawned
           ELSE /\ pc' = "probe_duration"
                /\ spawned' = Append(spawned, "ffprobe")
                /\ UNCHANGED <<dialogs, uncaught>>
    /\ UNCHANGED <<settings_vars, widget_vars, duration, orig_res, command>>

\* get_video_duration returns (lines 41-58); run_ffmpeg gives up (129-130) or
\* goes on to start the resolution probe (133-138).
duration_probe_returns ==
    /\ pc = "probe_duration"
    /\ \/ \* ffprobe could not be run, or printed no number: caught, None
          /\ Finish(Append(dialogs, showerror(DurationProbeFailed)), "none")
          /\ UNCHANGED <<duration, spawned>>
       \/ \E d \in Durations :
          /\ duration' = d
          /\ pc' = "probe_resolution"
          /\ spawned' = Append(spawned, "ffprobe")
          /\ UNCHANGED <<dialogs, uncaught>>
    /\ UNCHANGED <<settings_vars, widget_vars, orig_res, command>>

\* Lines 139-220 once orig_res is known: the plan is resolved and the encoder
\* started, unless an error dialog or an exception ends the request first.
resolve_and_spawn(res, ds) ==
    LET input_file == strip(input_entry)
        mode       == mode_var
        out_dir    == get_output_dir(output_dir_entry)
    IN  /\ orig_res' = res
        /\ IF res # Unknown /\ ~resolution_parses(res)
           THEN /\ Finish(ds, "ValueError")
                /\ UNCHANGED <<command, spawned>>
           ELSE IF ~exists(out_dir)
           THEN /\ Finish(Append(ds, showerror(OutputDirectoryMissing)), "none")
                /\ UNCHANGED <<command, spawned>>
           ELSE IF use_bitrate(mode) /\ video_total_bits(duration) <= 0
           THEN /\ Finish(Append(ds, showerror(InsufficientBudget)), "none")
                /\ UNCHANGED <<command, spawned>>
           ELSE IF use_bitrate(mode) /\ duration = 0
           THEN /\ Finish(ds, "ZeroDivisionError")
                /\ UNCHANGED <<command, spawned>>
           ELSE IF use_bitrate(mode) /\ video_bitrate_kbps(duration) <= 0
           THEN /\ Finish(Append(ds, showerror(InvalidBitrate)), "none")
                /\ UNCHANGED <<command, spawned>>
           ELSE /\ command' = build_command(input_file, out_dir, mode,
                                            vertical_of(res), use_nvenc_var, duration)
                /\ spawned' = Append(spawned, "ffmpeg")
                /\ pc' = "encode"
                /\ dialogs' = ds
                /\ UNCHANGED uncaught

\* get_video_resolution returns (lines 64-81) and run_ffmpeg runs on to the
\* encoder call.
resolution_probe_returns ==
    /\ pc = "probe_resolution"
    /\ \/ \* ffprobe could not be run: caught, a dialog, "unknown"
          resolve_and_spawn(Unknown, Append(dialogs, showerror(ResolutionProbeFailed)))
       \/ \E stdout \in ResolutionTexts : resolve_and_spawn(stdout, dialogs)
    /\ UNCHANGED <<settings_vars, widget_vars, duration>>

\* subprocess.run(command, check=True) returns or raises (lines 219-223).
encoder_returns ==
    /\ pc = "encode"
    /\ \E outcome \in EncoderOutcomes :
          CASE outcome = "exit0"   -> Finish(Append(dialogs, showinfo(Completed)), "none")
            [] outcome = "nonzero" -> Finish(Append(dialogs, showerror(EncoderFailed)), "none")
            [] outcome = "oserror" -> Finish(dialogs, "OSError")
    /\ UNCHANGED <<settings_vars, widget_vars, duration, orig_res, command, spawned>>

\* run_ffmpeg has returned; root.mainloop() (line 268) takes the next event.
mainloop ==
    /\ pc = "done"
    /\ pc' = "idle"
    /\ duration' = -1
    /\ orig_res' = Unset
    /\ command' = <<>>
    /\ spawned' = <<>>
    /\ dialogs' = <<>>
    /\ uncaught' = "none"
    /\ UNCHANGED <<settings_vars, widget_vars>>

Next ==
    \/ Restart
    \/ browse_file
    \/ type_output_dir
    \/ select_mode
    \/ browse_output_dir
    \/ toggle_nvenc
    \/ run_ffmpeg_start
    \/ duration_probe_returns
    \/ resolution_probe_returns
    \/ encoder_returns
    \/ mainloop

Spec == Init /\ [][Next]_vars

\* The same program with mode_var holding any string: run_ffmpeg reads the
\* mode as plain text and has a branch for a value the radio buttons lack.
AnyModes == UIModes \cup {"1080p"}

InitAnyMode ==
    \E f \in InitialFiles, m \in AnyModes :
        /\ file = f
        /\ config = load_config(f)
        /\ last_save = "none"
        /\ input_entry = <<>>
        /\ output_dir_entry = dict_get(load_config(f), "last_output_dir", <<>>)
        /\ mode_var = m
        /\ use_nvenc_var = dict_get(load_config(f), "use_nvenc", FALSE)
        /\ NoRequest

SpecAnyMode == InitAnyMode /\ [][Next]_vars

(***************************************************************************)
(* Reading a request's state                                               *)
(***************************************************************************)
HasArg(a) == \E i \in 1 .. Len(command) : command[i] = a

\* The argument that follows `flag` on the command line, "" when it is absent.
ArgAfter(flag) ==
    IF \E i \in 1 .. Len(command) - 1 : command[i] = flag
    THEN command[(CHOOSE i \in 1 .. Len(command) - 1 : command[i] = flag) + 1]
    ELSE ""

HasDialog(m) == \E i \in 1 .. Len(dialogs) : dialogs[i].msg = m

ErrorDialogs == {i \in 1 .. Len(dialogs) : dialogs[i].kind = "error"}
InfoDialogs  == {i \in 1 .. Len(dialogs) : dialogs[i].kind = "info"}

Spawns(tool) == {i \in 1 .. Len(spawned) : spawned[i] = tool}

EncoderSpawned == Spawns("ffmpeg") # {}

\* The encoder command has been built and handed to subprocess.run.
CommandIssued == command # <<>>

\* The source is portrait according to a well-formed resolution probe.
ProbedVertical ==
    orig_res \in {<<"1080", "x", "1920">>}

ProbedLandscapeOrSquare ==
    orig_res \in {<<"1920", "x", "1080">>, <<"720", "x", "720">>}

(***************************************************************************)
(* Properties                                                              *)
(***************************************************************************)
\* The scale filter of section 4.1: for a portrait source the height is
\* fixed and the width is -1 in scale=W:H.
TableScale(mode, vertical) ==
    CASE mode = "360p"  -> IF vertical THEN "scale=-1:360" ELSE "scale=640:360"
      [] mode = "480p"  -> IF vertical THEN "scale=-1:480" ELSE "scale=854:480"
      [] mode = "720p"  -> IF vertical THEN "scale=-1:720" ELSE "scale=1280:720"
      [] mode = "9.5MB" -> IF vertical THEN "scale=-1:480" ELSE "scale=854:480"

\* C1: for each of the four modes and each probed orientation, the -vf
\* argument of the encoder command is the table's filter: height fixed and
\* width -1 for a portrait source, the fixed WxH for landscape or square.
C1_ScaleFilterMatchesTable ==
    (CommandIssued /\ mode_var \in UIModes /\ (ProbedVertical \/ ProbedLandscapeOrSquare))
        => ArgAfter("-vf") = TableScale(mode_var, ProbedVertical)

\* The part of C1 the code does meet: the landscape and square column.
C1_LandscapeColumn ==
    (CommandIssued /\ mode_var \in UIModes /\ ProbedLandscapeOrSquare)
        => ArgAfter("-vf") = TableScale(mode_var, FALSE)

\* The k with k * 1000 * d <= videoBits < (k + 1) * 1000 * d.
FloorKbps(d) ==
    CHOOSE k \in 0 .. (TARGET_SIZE_BITS \div (1000 * d)) :
        /\ k * 1000 * d <= TARGET_SIZE_BITS - 128000 * d
        /\ TARGET_SIZE_BITS - 128000 * d < (k + 1) * 1000 * d

\* C2: in 9.5MB mode the -b:v argument of the encoder command is
\* floor((73,600,000 - 128000 * d) / d / 1000) kbps for the probed duration d
\* (1098 for d = 60), and video plus audio bits stay within 73,600,000.
C2_SizeTargetBitrate ==
    (CommandIssued /\ mode_var = "9.5MB") =>
        /\ duration > 0
        /\ ArgAfter("-b:v") = ToString(FloorKbps(duration)) \o "k"
        /\ FloorKbps(duration) * 1000 * duration + 128000 * duration <= 73600000
        /\ (duration = 60 => ArgAfter("-b:v") = "1098k")

C2_Witness ==
    /\ pc = "encode"
    /\ mode_var = "9.5MB"
    /\ duration = 60
    /\ ArgAfter("-b:v") = "1098k"

\* run_ffmpeg got as far as its rate-control step (line 185): the resolution
\* text did not raise and the output folder exists.
ReachedRateControl ==
    /\ orig_res # Unset
    /\ (orig_res = Unknown \/ ProbedVertical \/ ProbedLandscapeOrSquare)
    /\ get_output_dir(output_dir_entry) \in ExistingPaths

\* C3 as stated: a finished 9.5MB request with a probed duration d > 0 that
\* raised nothing shows InsufficientBudget exactly when
\* 73,600,000 - 128000 * d <= 0, and InvalidBitrate exactly when that is
\* positive but below 1000 * d.
C3_BudgetErrorsFromDurationAlone ==
    (pc = "done" /\ mode_var = "9.5MB" /\ orig_res # Unset /\ duration > 0
        /\ uncaught = "none") =>
        /\ HasDialog(InsufficientBudget) <=> (73600000 - 128000 * duration <= 0)
        /\ HasDialog(InvalidBitrate) <=>
              /\ 73600000 - 128000 * duration > 0
              /\ 73600000 - 128000 * duration < 1000 * duration

\* C3, amended: once the resolution probe has returned in 9.5MB mode,
\* InsufficientBudget is shown exactly when the rate-control step was reached
\* and 73,600,000 - 128000 * d <= 0, and InvalidBitrate exactly when it was
\* reached, d > 0 and 0 < 73,600,000 - 128000 * d < 1000 * d; either one is
\* an error dialog, the last of the request, and no encoder is spawned; in
\* the other modes, and before the resolution probe returns, neither is shown.
C3_BudgetErrors ==
    /\ (mode_var = "9.5MB" /\ orig_res # Unset) =>
          /\ HasDialog(InsufficientBudget) <=>
                (ReachedRateControl /\ 73600000 - 128000 * duration <= 0)
          /\ HasDialog(InvalidBitrate) <=>
                /\ ReachedRateControl
                /\ duration > 0
                /\ 73600000 - 128000 * duration > 0
                /\ 73600000 - 128000 * duration < 1000 * duration
    /\ (mode_var # "9.5MB" \/ orig_res = Unset) =>
          ~HasDialog(InsufficientBudget) /\ ~HasDialog(InvalidBitrate)
    /\ (HasDialog(InsufficientBudget) \/ HasDialog(InvalidBitrate)) =>
          /\ pc = "done"
          /\ ~EncoderSpawned
          /\ command = <<>>
          /\ dialogs[Len(dialogs)].kind = "error"
          /\ dialogs[Len(dialogs)].msg \in {InsufficientBudget, InvalidBitrate}

C3_Witness ==
    /\ pc = "done"
    /\ mode_var = "9.5MB"
    /\ duration = 572
    /\ dialogs = <<showerror(InvalidBitrate)>>
    /\ ~EncoderSpawned

\* C4 as stated: a request that shows the source-not-found or the
\* output-folder-missing error has invoked neither ffprobe nor ffmpeg.
C4_ValidationBeforeAnyProcess ==
    (HasDialog(SourceNotSpecified) \/ HasDialog(SourceNotFound)
        \/ HasDialog(OutputDirectoryMissing)) => spawned = <<>>

\* C4, amended: a request with an empty or non-existent source ends with
\* that one error dialog and no external process invoked; a request whose
\* output folder is missing ends with that error dialog and without the
\* encoder, but only after both ffprobe calls have been made.
C4_ValidationBeforeEncoder ==
    /\ (pc # "idle" /\ strip(input_entry) = <<>>) =>
          /\ pc = "done"
          /\ dialogs = <<showerror(SourceNotSpecified)>>
          /\ spawned = <<>>
    /\ (pc # "idle" /\ strip(input_entry) # <<>>
            /\ strip(input_entry) \notin ExistingPaths) =>
          /\ pc = "done"
          /\ dialogs = <<showerror(SourceNotFound)>>
          /\ spawned = <<>>
    /\ (HasDialog(SourceNotSpecified) \/ HasDialog(SourceNotFound)) => spawned = <<>>
    /\ HasDialog(OutputDirectoryMissing) =>
          /\ pc = "done"
          /\ dialogs[Len(dialogs)] = showerror(OutputDirectoryMissing)
          /\ spawned = <<"ffprobe", "ffprobe">>
          /\ command = <<>>
    /\ (orig_res # Unset /\ uncaught # "ValueError"
            /\ get_output_dir(output_dir_entry) \notin ExistingPaths) =>
          HasDialog(OutputDirectoryMissing)

C4_Witness ==
    /\ pc = "done"
    /\ dialogs = <<showerror(OutputDirectoryMissing)>>
    /\ spawned = <<"ffprobe", "ffprobe">>

\* The request's duration probe, or its resolution probe, did not deliver.
DurationProbeFailedHere == pc = "done" /\ duration = -1 /\ Len(spawned) = 1

ResolutionProbeFailedHere ==
    orig_res # Unset /\ ~(ProbedVertical \/ ProbedLandscapeOrSquare)

\* C5: a request whose duration probe or resolution probe failed (tool not
\* run, empty or malformed output) never spawns the encoder and, once it has
\* ended, has shown a ProbeFailed error.
C5_ProbeFailureAborts ==
    (DurationProbeFailedHere \/ ResolutionProbeFailedHere) =>
        /\ ~EncoderSpawned
        /\ pc = "done" =>
              (HasDialog(DurationProbeFailed) \/ HasDialog(ResolutionProbeFailed))

\* The part of C5 the code does meet: the duration probe.
C5_DurationProbeFailureAborts ==
    (DurationProbeFailedHere \/ HasDialog(DurationProbeFailed)) =>
        /\ dialogs = <<showerror(DurationProbeFailed)>>
        /\ spawned = <<"ffprobe">>
        /\ pc = "done"

\* The Settings values: each key absent or present, with any folder text the
\* model knows, the empty text included.
ValidSettings ==
    {EmptyDict}
    \cup {[use_nvenc |-> b] : b \in BOOLEAN}
    \cup {[last_output_dir |-> d] : d \in DialogDirs \cup TypedDirs}
    \cup {[last_output_dir |-> d, use_nvenc |-> b] :
            d \in DialogDirs \cup TypedDirs, b \in BOOLEAN}

\* C6: save_config(s) followed by load_config() gives s back for every
\* Settings value s, the empty (all-default) one included; and whenever the
\* latest save_config succeeded, config.json holds the whole in-memory
\* record and loads back equal to it.
C6_SettingsRoundTrip ==
    /\ \A s \in ValidSettings : load_config(save_config(NoFile, s, "ok")) = s
    /\ last_save = "ok" =>
          /\ file.exists
          /\ load_config(file) = config
          /\ DOMAIN load_config(file) = DOMAIN config
    /\ config \in ValidSettings

C6_Witness ==
    /\ last_save = "ok"
    /\ DOMAIN config = {"last_output_dir", "use_nvenc"}
    /\ config["last_output_dir"] = DirQuote
    /\ config["use_nvenc"] = FALSE
    /\ load_config(file) = config

\* C7: every encoder command names h264_nvenc with preset slow when the
\* NVENC box is ticked and libx264 with preset slow when it is not, in the
\* bitrate branch and in the quality branch alike.
C7_CodecFollowsNvencOnly ==
    CommandIssued =>
        /\ ArgAfter("-c:v") = (IF use_nvenc_var THEN "h264_nvenc" ELSE "libx264")
        /\ ArgAfter("-preset") = "slow"
        /\ Cardinality({i \in 1 .. Len(command) : command[i] = "-c:v"}) = 1

C7_Witness ==
    /\ pc = "encode"
    /\ use_nvenc_var
    /\ mode_var = "9.5MB"
    /\ HasArg("-b:v")
    /\ ArgAfter("-c:v") = "h264_nvenc"

\* C8: an encoder command carries -b:v exactly in 9.5MB mode, where the
\* computed bitrate is > 0; otherwise it carries the fixed quality 23 (-crf
\* for libx264, -cq for h264_nvenc); never both kinds, never neither.
C8_RateControlInvariant ==
    CommandIssued =>
        /\ HasArg("-b:v") <=> mode_var = "9.5MB"
        /\ HasArg("-b:v") =>
              /\ duration > 0
              /\ 73600000 - 128000 * duration >= 1000 * duration
              /\ ArgAfter("-b:v") \notin {"", "0k"}
              /\ ~HasArg("-crf") /\ ~HasArg("-cq")
        /\ ~HasArg("-b:v") =>
              /\ use_nvenc_var => (ArgAfter("-cq") = "23" /\ ~HasArg("-crf"))
              /\ ~use_nvenc_var => (ArgAfter("-crf") = "23" /\ ~HasArg("-cq"))

C8_Witness ==
    /\ pc = "encode"
    /\ mode_var = "720p"
    /\ use_nvenc_var
    /\ ArgAfter("-cq") = "23"
    /\ ~HasArg("-b:v")

\* C9: with a mode other than 360p, 480p, 720p and 9.5MB, the encoder
\* command has no -vf, the fixed quality 23 and no bitrate, and writes
\* <base name>_default.mp4; the mode itself is never a reason to reject: a
\* request that ends without the encoder has shown one of the other errors
\* or raised on the resolution text.
C9_UnknownModeFallback ==
    mode_var \notin UIModes =>
        /\ CommandIssued =>
              /\ ~HasArg("-vf")
              /\ ~HasArg("-b:v")
              /\ ArgAfter(IF use_nvenc_var THEN "-cq" ELSE "-crf") = "23"
              /\ command[Len(command)] =
                    text(get_output_dir(output_dir_entry)) \o "/a_default.mp4"
        /\ ~HasDialog(InsufficientBudget) /\ ~HasDialog(InvalidBitrate)
        /\ (orig_res # Unset /\ (orig_res = Unknown \/ ProbedVertical \/ ProbedLandscapeOrSquare)
                /\ get_output_dir(output_dir_entry) \in ExistingPaths) => EncoderSpawned

C9_Witness ==
    /\ mode_var = "1080p"
    /\ pc = "encode"
    /\ ProbedVertical
    /\ use_nvenc_var
    /\ command[Len(command)] = "c\\v/a_default.mp4"

\* C10: a finished request has shown exactly one dialog: one error, or one
\* success that follows the single encoder run; the encoder is spawned at
\* most once and never after an error dialog; no request ends silently.
C10_OneRequestOneOutcome ==
    /\ Cardinality(Spawns("ffmpeg")) <= 1
    /\ EncoderSpawned => (pc = "encode" => ErrorDialogs = {})
    /\ pc = "done" =>
          /\ Len(dialogs) = 1
          /\ uncaught = "none"
          /\ InfoDialogs # {} => (EncoderSpawned /\ dialogs = <<showinfo(Completed)>>)

\* The part of C10 the code does meet: at most one encoder run, a success
\* dialog only as the last thing after it, and never two error dialogs for
\* one failure.
C10_AtMostOneEncoderRun ==
    /\ Cardinality(Spawns("ffmpeg")) <= 1
    /\ InfoDialogs # {} =>
          /\ pc = "done"
          /\ EncoderSpawned
          /\ dialogs[Len(dialogs)] = showinfo(Completed)
          /\ Cardinality(InfoDialogs) = 1
    /\ Len(dialogs) <= 2

=============================================================================
